---- MODULE Spec2Model ----
(***************************************************************************)
(* Gesture-controlled robot (src/main.py): a webcam loop that turns the    *)
(* hand landmarks of each frame into a latched motion command and sends    *)
(* the command's wheel velocities to the simulator.                        *)
(*                                                                         *)
(* Float literals of the source (2.0, -1.0, ...) are kept as strings so    *)
(* that a setpoint is compared exactly as the literal the code sends.      *)
(* Normalised landmark coordinates are numerators over Scale.              *)
(***************************************************************************)
EXTENDS Integers, Sequences, FiniteSets

VARIABLES
    pc,               \* the statement the script executes next
    client_id,        \* line 20: "0" for a connection, "-1" for none
    session,          \* the remote API session: "open" or "closed"
    cap_open,         \* line 36 / line 104: the capture is held
    ret,              \* line 42
    results,          \* line 49: results.multi_hand_landmarks, a sequence of hands
    fingers,          \* lines 63-68
    total_fingers,    \* line 70, -1 while unbound
    current_command,  \* line 37: the latch
    left_vel,         \* the target velocity the left motor last received
    right_vel,        \* the target velocity the right motor last received
    iter_sent,        \* the setpoints sent since the last cap.read(), in order
    key,              \* the key code cv2.waitKey would return now
    recognized,       \* history: some frame so far had a count of 0, 1, 2 or 5
    repeated          \* history: "no_frame", or whether the frame in results is
                      \* the "same" observation as the one before it or a "fresh" one

vars == <<pc, client_id, session, cap_open, ret, results, fingers,
          total_fingers, current_command, left_vel, right_vel, iter_sent,
          key, recognized, repeated>>

(* ------------------------------ bounds -------------------------------- *)
\* normalised coordinates are k/Scale for k in 0..Scale
Scale == 4

(* ------------------------- program constants -------------------------- *)
tip_ids == <<4, 8, 12, 16, 20>>
max_num_hands == 2
ord_q == 113
KeyMask == 255

Commands == {"FORWARD", "REVERSE", "TURN", "STOP"}
UNDEF == "UNDEF"
NoSetpoint == "none"
Fingers == 1..5

(* --------------------------- the environment --------------------------- *)
\* (h, w) of the captured frame
FrameShapes == {<<480, 640>>}
\* what waitKey can return: no key, 'q', 'Q', 'q' with a modifier bit set
KeyCodes == {-1, ord_q, 81, ord_q + 256}

\* the three levels a landmark coordinate takes: 0, Mid, Hi
Mid == Scale \div 2
Hi == Scale

\* A detected hand: landmark i (0-based) is hand[i+1] = <<x, y>>, normalised.
\* The fingers in pose are held extended (thumb tip right of its joint, other
\* tips above their joints), the others curled; with tie, curled fingers
\* have the tip exactly level with the joint.
MkHand(pose, len, tie) ==
    [k \in 1..len |->
        LET i == k - 1 IN
        IF i = tip_ids[1]
        THEN <<IF 1 \in pose THEN Hi ELSE IF tie THEN Mid ELSE 0, Mid>>
        ELSE IF \E f \in 2..5 : i = tip_ids[f]
        THEN LET f == CHOOSE g \in 2..5 : i = tip_ids[g] IN
             <<Mid, IF f \in pose THEN 0 ELSE IF tie THEN Mid ELSE Hi>>
        ELSE <<Mid, Mid>>]

NumLandmarks == tip_ids[5] + 1
WellFormedHands == {MkHand(p, NumLandmarks, FALSE) : p \in SUBSET Fingers}
TieHands == {MkHand(p, NumLandmarks, TRUE) : p \in {{}, {2}, {1, 2, 3}}}
ShortHands == {MkHand(p, NumLandmarks - 1, FALSE) : p \in {{}, Fingers}}
LongHands == {MkHand(p, NumLandmarks + 1, FALSE) : p \in {{}, {2, 3}}}
HandSet == WellFormedHands \cup TieHands \cup ShortHands \cup LongHands
\* the hands a detector reports after the first one
LaterHands == {MkHand({}, NumLandmarks, FALSE), MkHand(Fingers, NumLandmarks, FALSE),
               MkHand({2}, NumLandmarks, FALSE), MkHand(Fingers, NumLandmarks - 1, FALSE)}

\* results.multi_hand_landmarks: zero to max_num_hands hands
Frames ==
    {hs \in UNION {[1..n -> HandSet] : n \in 0..max_num_hands} :
        \A i \in 2..Len(hs) : hs[i] \in LaterHands}

(* ---------------------------- pure helpers ----------------------------- *)
\* Python int(): truncation towards zero of a/b
Trunc(a, b) == IF a >= 0 THEN a \div b ELSE -((-a) \div b)

\* int(lm.x * w)
Pixel(k, dim) == Trunc(k * dim, Scale)

RECURSIVE Flatten(_)
Flatten(ss) == IF ss = <<>> THEN <<>> ELSE Head(ss) \o Flatten(Tail(ss))

\* variant: lm_list is reset inside the loop over the hands, the last hand wins
BuildLmList_lastHand(hands, shape) ==
    IF hands = <<>> THEN <<>>
    ELSE [k \in 1..Len(hands[Len(hands)]) |->
            <<k - 1, Pixel(hands[Len(hands)][k][1], shape[2]),
              Pixel(hands[Len(hands)][k][2], shape[1])>>]

\* lines 52-59: every landmark of every hand, in order, as (id, cx, cy)
BuildLmList(hands, shape) ==
    Flatten([n \in 1..Len(hands) |->
        [k \in 1..Len(hands[n]) |->
            <<k - 1, Pixel(hands[n][k][1], shape[2]), Pixel(hands[n][k][2], shape[1])>>]])

\* Python list indexing lm_list[i], i >= 0
At(l, i) == l[i + 1]

\* the indices lines 65 and 68 read
AccessedIndices ==
    {tip_ids[1], tip_ids[1] - 1} \cup UNION {{tip_ids[i + 1], tip_ids[i + 1] - 2} : i \in 1..4}

IndexError(l) == \E i \in AccessedIndices : i >= Len(l)

\* variant: the four fingers compare with <=, a level tip counts as extended
ExtractFingers_le(l) ==
    <<IF At(l, tip_ids[1])[2] > At(l, tip_ids[1] - 1)[2] THEN 1 ELSE 0>> \o
    [i \in 1..4 |-> IF At(l, tip_ids[i + 1])[3] <= At(l, tip_ids[i + 1] - 2)[3] THEN 1 ELSE 0]

\* lines 63-68
ExtractFingers(l) ==
    <<IF At(l, tip_ids[1])[2] > At(l, tip_ids[1] - 1)[2] THEN 1 ELSE 0>> \o
    [i \in 1..4 |-> IF At(l, tip_ids[i + 1])[3] < At(l, tip_ids[i + 1] - 2)[3] THEN 1 ELSE 0]

\* fingers.count(1)
Count1(fs) == Cardinality({i \in 1..Len(fs) : fs[i] = 1})

\* variants of the command selection, each with one slip
SelectCommand_swapped(n, previous) ==
    IF n = 0 THEN "FORWARD"
    ELSE IF n = 1 THEN "TURN"
    ELSE IF n = 2 THEN "REVERSE"
    ELSE IF n = 5 THEN "STOP"
    ELSE previous

SelectCommand_elseStop(n, previous) ==
    IF n = 0 THEN "FORWARD"
    ELSE IF n = 1 THEN "REVERSE"
    ELSE IF n = 2 THEN "TURN"
    ELSE "STOP"

SelectCommand_elseForward(n, previous) ==
    IF n = 0 THEN "FORWARD"
    ELSE IF n = 1 THEN "REVERSE"
    ELSE IF n = 2 THEN "TURN"
    ELSE IF n = 5 THEN "STOP"
    ELSE "FORWARD"

SelectCommand_toggle(n, previous) ==
    IF n = 0 THEN "FORWARD"
    ELSE IF n = 1 THEN "REVERSE"
    ELSE IF n = 2 THEN (IF previous = "TURN" THEN "STOP" ELSE "TURN")
    ELSE IF n = 5 THEN "STOP"
    ELSE previous

SelectCommand_noStop(n, previous) ==
    IF n = 0 THEN "FORWARD"
    ELSE IF n = 1 THEN "REVERSE"
    ELSE IF n = 2 THEN "TURN"
    ELSE previous

\* lines 73-80
SelectCommand(n, previous) ==
    IF n = 0 THEN "FORWARD"
    ELSE IF n = 1 THEN "REVERSE"
    ELSE IF n = 2 THEN "TURN"
    ELSE IF n = 5 THEN "STOP"
    ELSE previous

\* lines 83-94: the velocity sent to the left motor, NoSetpoint when no branch is taken
LeftVelocity(c) ==
    IF c = "FORWARD" THEN "2.0"
    ELSE IF c = "REVERSE" THEN "-2.0"
    ELSE IF c = "TURN" THEN "-1.0"
    ELSE IF c = "STOP" THEN "0.0"
    ELSE NoSetpoint

\* variant: the turn sends the left wheel's value to the right wheel too
RightVelocity_turnSame(c) ==
    IF c = "FORWARD" THEN "2.0"
    ELSE IF c = "REVERSE" THEN "-2.0"
    ELSE IF c = "TURN" THEN "-1.0"
    ELSE IF c = "STOP" THEN "0.0"
    ELSE NoSetpoint

\* lines 83-94: the velocity sent to the right motor
RightVelocity(c) ==
    IF c = "FORWARD" THEN "2.0"
    ELSE IF c = "REVERSE" THEN "-2.0"
    ELSE IF c = "TURN" THEN "1.0"
    ELSE IF c = "STOP" THEN "0.0"
    ELSE NoSetpoint

\* cv2.waitKey(1) & 0xFF == ord('q')
QuitKey(k) == (k % (KeyMask + 1)) = ord_q

(* ------------------------------- state --------------------------------- *)
Init ==
    /\ pc = "connect"
    /\ client_id = UNDEF
    /\ session = "closed"
    /\ cap_open = FALSE
    /\ ret = FALSE
    /\ results = <<>>
    /\ fingers = <<>>
    /\ total_fingers = -1
    /\ current_command = UNDEF
    /\ left_vel = NoSetpoint
    /\ right_vel = NoSetpoint
    /\ iter_sent = <<>>
    /\ key = -1
    /\ recognized = FALSE
    /\ repeated = "no_frame"

\* lines 19-20: simxFinish(-1); client_id = simxStart(...)
Connect ==
    /\ pc = "connect"
    /\ \E ok \in BOOLEAN :
        /\ client_id' = IF ok THEN "0" ELSE "-1"
        /\ session' = IF ok THEN "open" ELSE "closed"
    /\ pc' = "check_connect"
    /\ UNCHANGED <<cap_open, ret, results, fingers, total_fingers, current_command,
                   left_vel, right_vel, iter_sent, key, recognized, repeated>>

\* variant: the failed connection is reported but the script goes on
CheckConnect_noExit ==
    /\ pc = "check_connect"
    /\ pc' = "setup"
    /\ UNCHANGED <<client_id, session, cap_open, ret, results, fingers, total_fingers,
                   current_command, left_vel, right_vel, iter_sent, key, recognized, repeated>>

\* lines 22-25
CheckConnect ==
    /\ pc = "check_connect"
    /\ pc' = IF client_id = "-1" THEN "exited" ELSE "setup"
    /\ UNCHANGED <<client_id, session, cap_open, ret, results, fingers, total_fingers,
                   current_command, left_vel, right_vel, iter_sent, key, recognized, repeated>>

\* lines 28-40: motor handles, capture, the latch
Setup ==
    /\ pc = "setup"
    /\ cap_open' = TRUE
    /\ current_command' = "STOP"
    /\ pc' = "read"
    /\ UNCHANGED <<client_id, session, ret, results, fingers, total_fingers,
                   left_vel, right_vel, iter_sent, key, recognized, repeated>>

\* line 42: ret, frame = cap.read()
Read ==
    /\ pc = "read"
    /\ ret' \in BOOLEAN
    /\ iter_sent' = <<>>
    /\ pc' = "check_ret"
    /\ UNCHANGED <<client_id, session, cap_open, results, fingers, total_fingers,
                   current_command, left_vel, right_vel, key, recognized, repeated>>

\* variant: without the continue a failed read falls through to the sends
CheckRet_fallthrough ==
    /\ pc = "check_ret"
    /\ pc' = IF ret THEN "detect" ELSE "send_left"
    /\ UNCHANGED <<client_id, session, cap_open, ret, results, fingers, total_fingers,
                   current_command, left_vel, right_vel, iter_sent, key, recognized, repeated>>

\* lines 43-44
CheckRet ==
    /\ pc = "check_ret"
    /\ pc' = IF ret THEN "detect" ELSE "read"
    /\ UNCHANGED <<client_id, session, cap_open, ret, results, fingers, total_fingers,
                   current_command, left_vel, right_vel, iter_sent, key, recognized, repeated>>

\* lines 47-50: results = hands.process(image); repeated records whether the
\* detector reported the same observation as for the frame before
Detect ==
    /\ pc = "detect"
    /\ results' \in Frames
    /\ repeated' = IF repeated # "no_frame" /\ results' = results THEN "same" ELSE "fresh"
    /\ pc' = "interpret"
    /\ UNCHANGED <<client_id, session, cap_open, ret, fingers, total_fingers,
                   current_command, left_vel, right_vel, iter_sent, key, recognized>>

\* lines 52-80
Interpret ==
    /\ pc = "interpret"
    /\ \E shape \in FrameShapes :
        LET lm_list == BuildLmList(results, shape) IN
        IF lm_list = <<>>
        THEN /\ pc' = "send_left"
             /\ UNCHANGED <<fingers, total_fingers, current_command, recognized>>
        ELSE IF IndexError(lm_list)
        THEN /\ pc' = "crashed"
             /\ UNCHANGED <<fingers, total_fingers, current_command, recognized>>
        ELSE LET fs == ExtractFingers(lm_list)
                 n == Count1(fs) IN
             /\ fingers' = fs
             /\ total_fingers' = n
             /\ current_command' = SelectCommand(n, current_command)
             /\ recognized' = (recognized \/ n \in {0, 1, 2, 5})
             /\ pc' = "send_left"
    /\ UNCHANGED <<client_id, session, cap_open, ret, results, left_vel, right_vel,
                   iter_sent, key, repeated>>

\* variant: setpoints are sent only when they differ from the ones in force
SendLeft_onlyOnChange ==
    /\ pc = "send_left"
    /\ IF LeftVelocity(current_command) \in {NoSetpoint, left_vel}
       THEN /\ pc' = "show"
            /\ UNCHANGED <<left_vel, iter_sent>>
       ELSE /\ left_vel' = LeftVelocity(current_command)
            /\ iter_sent' = Append(iter_sent, <<"left_motor", LeftVelocity(current_command)>>)
            /\ pc' = "send_right"
    /\ UNCHANGED <<client_id, session, cap_open, ret, results, fingers, total_fingers,
                   current_command, right_vel, key, recognized, repeated>>

\* lines 84, 87, 90, 93
SendLeft ==
    /\ pc = "send_left"
    /\ IF LeftVelocity(current_command) = NoSetpoint
       THEN /\ pc' = "show"
            /\ UNCHANGED <<left_vel, iter_sent>>
       ELSE /\ left_vel' = LeftVelocity(current_command)
            /\ iter_sent' = Append(iter_sent, <<"left_motor", LeftVelocity(current_command)>>)
            /\ pc' = "send_right"
    /\ UNCHANGED <<client_id, session, cap_open, ret, results, fingers, total_fingers,
                   current_command, right_vel, key, recognized, repeated>>

\* lines 85, 88, 91, 94
SendRight ==
    /\ pc = "send_right"
    /\ right_vel' = RightVelocity(current_command)
    /\ iter_sent' = Append(iter_sent, <<"right_motor", RightVelocity(current_command)>>)
    /\ pc' = "show"
    /\ UNCHANGED <<client_id, session, cap_open, ret, results, fingers, total_fingers,
                   current_command, left_vel, key, recognized, repeated>>

\* lines 97-101: overlay, imshow, waitKey and the quit test
ShowAndWaitKey ==
    /\ pc = "show"
    /\ pc' = IF QuitKey(key) THEN "release" ELSE "read"
    /\ UNCHANGED <<client_id, session, cap_open, ret, results, fingers, total_fingers,
                   current_command, left_vel, right_vel, iter_sent, key, recognized, repeated>>

\* line 104
Release ==
    /\ pc = "release"
    /\ cap_open' = FALSE
    /\ pc' = "destroy"
    /\ UNCHANGED <<client_id, session, ret, results, fingers, total_fingers,
                   current_command, left_vel, right_vel, iter_sent, key, recognized, repeated>>

\* line 105
DestroyWindows ==
    /\ pc = "destroy"
    /\ pc' = "finish"
    /\ UNCHANGED <<client_id, session, cap_open, ret, results, fingers, total_fingers,
                   current_command, left_vel, right_vel, iter_sent, key, recognized, repeated>>

\* line 106
Finish ==
    /\ pc = "finish"
    /\ session' = "closed"
    /\ pc' = "done"
    /\ UNCHANGED <<client_id, cap_open, ret, results, fingers, total_fingers,
                   current_command, left_vel, right_vel, iter_sent, key, recognized, repeated>>

Terminated == pc \in {"done", "exited", "crashed"}

\* the user presses or releases a key while the program runs
KeyChange ==
    /\ ~Terminated
    /\ key' \in KeyCodes \ {key}
    /\ UNCHANGED <<pc, client_id, session, cap_open, ret, results, fingers, total_fingers,
                   current_command, left_vel, right_vel, iter_sent, recognized, repeated>>

Step ==
    \/ Connect
    \/ CheckConnect
    \/ Setup
    \/ Read
    \/ CheckRet
    \/ Detect
    \/ Interpret
    \/ SendLeft
    \/ SendRight
    \/ ShowAndWaitKey
    \/ Release
    \/ DestroyWindows
    \/ Finish

Next == Step \/ KeyChange

Spec == Init /\ [][Next]_vars

\* the interpreter keeps executing the script; nothing is assumed of camera or user
FairSpec == Init /\ [][Next]_vars /\ WF_vars(Step)

(* ------------------------------- claims -------------------------------- *)
\* a step that ran lines 52-80 to the end
InterpretDone == pc = "interpret" /\ pc' = "send_left"

\* spec 4.2: the count-to-command table
MappedCommand == [n \in {0, 1, 2, 5} |->
    IF n = 0 THEN "FORWARD" ELSE IF n = 1 THEN "REVERSE" ELSE IF n = 2 THEN "TURN" ELSE "STOP"]

\* spec 4.3: the command-to-velocity table
VelocityTable == [c \in Commands |->
    IF c = "FORWARD" THEN <<"2.0", "2.0">>
    ELSE IF c = "REVERSE" THEN <<"-2.0", "-2.0">>
    ELSE IF c = "TURN" THEN <<"-1.0", "1.0">>
    ELSE <<"0.0", "0.0">>]

\* the poses whose well-formed hand is the first hand of the frame
PosesOf(hs) == {p \in SUBSET Fingers : hs # <<>> /\ hs[1] = MkHand(p, NumLandmarks, FALSE)}

\* C1: a frame with a hand whose count n of extended fingers is 0, 1, 2 or 5
\* leaves the latch at FORWARD, REVERSE, TURN, STOP respectively, whatever
\* the latch held before; in particular for the hand holding exactly the
\* fingers of a pose of that size extended.
C1_RecognizedCountSetsCommand ==
    [][(InterpretDone /\ results # <<>>) =>
        /\ \A n \in {0, 1, 2, 5} :
            total_fingers' = n => current_command' = MappedCommand[n]
        /\ \A p \in PosesOf(results) :
            Cardinality(p) \in {0, 1, 2, 5} =>
                /\ total_fingers' = Cardinality(p)
                /\ current_command' = MappedCommand[Cardinality(p)]]_vars

\* one finger shown while the robot was driving forward: the latch is REVERSE
C1_Witness ==
    /\ pc = "send_left"
    /\ results # <<>>
    /\ total_fingers = 1
    /\ left_vel = "2.0"
    /\ right_vel = "2.0"
    /\ current_command = "REVERSE"

\* C2: a frame with no hand, or with 3 or 4 extended fingers, leaves the
\* latch as it was, for every previous command.
C2_UnrecognizedHoldsLatch ==
    [][InterpretDone =>
        /\ results = <<>> => current_command' = current_command
        /\ (results # <<>> /\ total_fingers' \in {3, 4}) => current_command' = current_command
        /\ \A p \in PosesOf(results) :
            Cardinality(p) \in {3, 4} =>
                /\ total_fingers' = Cardinality(p)
                /\ current_command' = current_command]_vars

\* three fingers shown while the latch was TURN (its setpoints still applied)
C2_Witness ==
    /\ pc = "send_left"
    /\ results # <<>>
    /\ total_fingers = 3
    /\ left_vel = "-1.0"
    /\ right_vel = "1.0"
    /\ current_command = "TURN"

\* C3: when the loop has ended on the quit key and the capture has been
\* released, the last setpoints the actuator received are STOP (0.0, 0.0).
C3_StopSentBeforeRelease ==
    pc \in {"destroy", "finish", "done"} => (left_vel = "0.0" /\ right_vel = "0.0")

\* C4: after the two sends of an iteration the motors hold exactly the
\* table row of the latched command, and that row is what was sent.
C4_VelocityLookup ==
    (pc = "show" /\ current_command \in Commands) =>
        /\ <<left_vel, right_vel>> = VelocityTable[current_command]
        /\ iter_sent = << <<"left_motor", VelocityTable[current_command][1]>>,
                          <<"right_motor", VelocityTable[current_command][2]>> >>

\* the turn pair has been sent again in an iteration whose frame (four
\* fingers) held the latch
C4_Witness ==
    /\ pc = "show"
    /\ current_command = "TURN"
    /\ left_vel = "-1.0"
    /\ right_vel = "1.0"
    /\ results # <<>>
    /\ total_fingers = 4
    /\ Len(iter_sent) = 2

\* the command lines 52-80 leave in the latch for a frame; UNDEF when they raise
FrameCommand(hs, previous) ==
    LET shape == CHOOSE sh \in FrameShapes : TRUE
        l == BuildLmList(hs, shape) IN
    IF l = <<>> THEN previous
    ELSE IF IndexError(l) THEN UNDEF
    ELSE SelectCommand(Count1(ExtractFingers(l)), previous)

\* C5: a frame whose first hand has fewer or more landmarks than the 21 of
\* the anatomical scheme leaves the latch unmodified and the loop goes on
\* (the process does not end).
C5_MalformedSkipped ==
    [][(pc = "interpret" /\ results # <<>> /\ Len(results[1]) # NumLandmarks) =>
        (current_command' = current_command /\ pc' # "crashed")]_vars

\* C6: in a frame with two hands whose first hand carries the landmarks the
\* extraction reads, the latch is what the first hand alone would give, and
\* stays so for every other second hand.
C6_OnlyFirstHand ==
    [][(InterpretDone /\ Len(results) >= 2 /\ Len(results[1]) >= NumLandmarks) =>
        /\ current_command' = FrameCommand(<<results[1]>>, current_command)
        /\ \A h \in LaterHands :
            FrameCommand(<<results[1], h>>, current_command) = current_command']_vars

\* a fist first and an open hand second: the latch follows the fist
C6_Witness ==
    /\ pc = "send_left"
    /\ Len(results) = 2
    /\ results[1] = MkHand({}, NumLandmarks, FALSE)
    /\ results[2] = MkHand(Fingers, NumLandmarks, FALSE)
    /\ current_command = "FORWARD"

\* C7: from the creation of the latch up to the first frame with a count of
\* 0, 1, 2 or 5 the latch is STOP and every setpoint sent is 0.0.
C7_StopUntilRecognized ==
    (current_command # UNDEF /\ ~recognized) =>
        /\ current_command = "STOP"
        /\ left_vel \in {NoSetpoint, "0.0"}
        /\ right_vel \in {NoSetpoint, "0.0"}
        /\ \A i \in 1..Len(iter_sent) : iter_sent[i][2] = "0.0"

\* a four-finger frame came first: STOP was held and sent
C7_Witness ==
    /\ ~recognized
    /\ pc = "show"
    /\ results # <<>>
    /\ total_fingers = 4
    /\ left_vel = "0.0"
    /\ right_vel = "0.0"

\* C8: if from some point on the quit key stays pressed, the program ends.
C8_QuitTerminates == (<>[]QuitKey(key)) => <>Terminated

\* C9: a frame with the same observation as the frame before it does not
\* change the latch.
C9_RepeatIdempotent ==
    [][(InterpretDone /\ repeated = "same") => current_command' = current_command]_vars

\* the same two-finger hand seen twice in a row, the latch at TURN
C9_Witness ==
    /\ pc = "send_left"
    /\ repeated = "same"
    /\ results # <<>>
    /\ total_fingers = 2
    /\ current_command = "TURN"
    /\ left_vel = "-1.0"

\* C10: once set, the latch is always one of the four commands, and from
\* whatever it holds when a frame arrives, each of the four commands is
\* one frame away: some one-hand frame with a count in {0,1,2,5} gives it.
C10_EveryTransitionOneFrame ==
    /\ current_command # UNDEF => current_command \in Commands
    /\ pc = "detect" =>
        \A c2 \in Commands :
            \E p \in SUBSET Fingers :
                /\ Cardinality(p) \in {0, 1, 2, 5}
                /\ <<MkHand(p, NumLandmarks, FALSE)>> \in Frames
                /\ FrameCommand(<<MkHand(p, NumLandmarks, FALSE)>>, current_command) = c2

\* the latch went from REVERSE to TURN in one frame
C10_Witness ==
    /\ pc = "send_left"
    /\ current_command = "TURN"
    /\ left_vel = "-2.0"
    /\ right_vel = "-2.0"
    /\ total_fingers = 2

(* ------------- the actuation step on its own (lines 83-94) ------------- *)
\* values current_command could only hold if some other code assigned them
OutOfEnum == {"LEFT", "Stop"}

\* the setpoints the motors may hold from earlier iterations
Setpoints == {NoSetpoint, "2.0", "-2.0", "-1.0", "1.0", "0.0"}

\* line 83 is entered with any command value and any earlier setpoints
ActuateInit ==
    /\ pc = "send_left"
    /\ client_id = "0"
    /\ session = "open"
    /\ cap_open = TRUE
    /\ ret = TRUE
    /\ results = <<>>
    /\ fingers = <<>>
    /\ total_fingers = -1
    /\ current_command \in Commands \cup OutOfEnum
    /\ left_vel \in Setpoints
    /\ right_vel \in Setpoints
    /\ iter_sent = <<>>
    /\ key = -1
    /\ recognized = FALSE
    /\ repeated = "fresh"

ActuateNext == SendLeft \/ SendRight

ActuateSpec == ActuateInit /\ [][ActuateNext]_vars

C12_ClassifyThenActuate ==
    /\ [](pc \in {"check_ret", "detect", "interpret", "send_left"} => iter_sent = <<>>)
    /\ [](pc = "send_right" =>
            iter_sent = << <<"left_motor", VelocityTable[current_command][1]>> >>)
    /\ [](pc = "show" =>
            iter_sent = << <<"left_motor", VelocityTable[current_command][1]>>,
                           <<"right_motor", VelocityTable[current_command][2]>> >>)
    /\ [][(pc = "send_left" \/ pc = "send_right") => current_command' = current_command]_vars

\* three fingers after FORWARD: the latch is held and (2.0, 2.0) sent again
C12_Witness ==
    /\ pc = "show"
    /\ results # <<>>
    /\ total_fingers = 3
    /\ repeated = "same"
    /\ current_command = "FORWARD"
    /\ iter_sent = << <<"left_motor", "2.0">>, <<"right_motor", "2.0">> >>

\* the finger states the geometric rules give for a hand, in pixels: thumb by
\* x of landmark 4 against landmark 3, the others by y of the tip against
\* the landmark two below
RuleFingers(hand, shape) ==
    <<IF Pixel(hand[5][1], shape[2]) > Pixel(hand[4][1], shape[2]) THEN 1 ELSE 0,
      IF Pixel(hand[9][2], shape[1]) < Pixel(hand[7][2], shape[1]) THEN 1 ELSE 0,
      IF Pixel(hand[13][2], shape[1]) < Pixel(hand[11][2], shape[1]) THEN 1 ELSE 0,
      IF Pixel(hand[17][2], shape[1]) < Pixel(hand[15][2], shape[1]) THEN 1 ELSE 0,
      IF Pixel(hand[21][2], shape[1]) < Pixel(hand[19][2], shape[1]) THEN 1 ELSE 0>>

\* C13: for a frame whose first hand has its first 21 landmarks, fingers is
\* what the rules give on that hand: strict comparisons, equal is curled.
C13_GeometricRules ==
    [][(InterpretDone /\ results # <<>> /\ Len(results[1]) >= NumLandmarks) =>
        \A shape \in FrameShapes : fingers' = RuleFingers(results[1], shape)]_vars

\* index extended, every other tip level with its joint: only index counts
C13_Witness ==
    /\ pc = "send_left"
    /\ results = <<MkHand({2}, NumLandmarks, TRUE)>>
    /\ fingers = <<0, 1, 0, 0, 0>>
    /\ total_fingers = 1

\* C14: a setpoint is sent only while the session is open, and after a failed
\* connection the script exits with the capture never opened, no frame
\* processed and no setpoint sent; the session is closed when the script ends.
C14_SendsOnlyInSession ==
    /\ [][Len(iter_sent') > Len(iter_sent) => (session = "open" /\ session' = "open")]_vars
    /\ [](client_id = "-1" =>
            /\ pc \in {"check_connect", "exited"}
            /\ session = "closed"
            /\ ~cap_open
            /\ repeated = "no_frame"
            /\ left_vel = NoSetpoint
            /\ right_vel = NoSetpoint)
    /\ [](pc = "done" => session = "closed")

\* the connection failed and the script has exited
C14_Witness ==
    /\ pc = "exited"
    /\ client_id = "-1"
    /\ session = "closed"
    /\ left_vel = NoSetpoint
    /\ right_vel = NoSetpoint

\* C15: an iteration whose cap.read() fails goes from the read straight back
\* to the read, with the latch and the motors' setpoints unchanged and no
\* setpoint sent.
C15_FailedReadNoEffect ==
    /\ [][(pc = "read" /\ pc' # pc) =>
            /\ pc' = "check_ret"
            /\ UNCHANGED <<current_command, left_vel, right_vel, results, session>>]_vars
    /\ [][(pc = "check_ret" /\ ~ret /\ pc' # pc) =>
            /\ pc' = "read"
            /\ UNCHANGED <<current_command, left_vel, right_vel, results, session, iter_sent>>]_vars
    /\ [](pc = "check_ret" => iter_sent = <<>>)

\* back at the read after a failed acquisition, still driving forward
C15_Witness ==
    /\ pc = "read"
    /\ ~ret
    /\ iter_sent = <<>>
    /\ current_command = "FORWARD"
    /\ left_vel = "2.0"
    /\ right_vel = "2.0"

====
